---- MODULE Spec2Model ----
(***************************************************************************)
(* A model of app.py, the Streamlit document summarizer: the text          *)
(* extractors, get_file_content, detect_text_language,                     *)
(* get_summary_from_openai and main.                                       *)
(*                                                                         *)
(* A Python str is a sequence of tokens.  A token is a one-character       *)
(* string for text that comes from a document or from the user, and one    *)
(* string per literal fragment of the source for the text the program      *)
(* itself writes.  A Python value that may be None is a record with the    *)
(* fields isNone and str.                                                  *)
(***************************************************************************)
EXTENDS Integers, Sequences, FiniteSets, TLC

\* ------------------------------------------------------------- bounds
NLangs == 2
MaxRows == 6

\* ------------------------------------------------- program constants
SliderMin == 100
SliderMax == 1000
SliderStep == 50
HeadRows == 5
SliderDefault == 300
DetectPrefixLen == 500

\* ---------------------------------------------------- Python values
None == [isNone |-> TRUE, str |-> <<>>]
Some(s) == [isNone |-> FALSE, str |-> s]
Truthy(v) == ~v.isNone /\ v.str # <<>>

Returned(s) == [raised |-> FALSE, str |-> s, exc |-> "", msg |-> <<>>]
Raised(e, m) == [raised |-> TRUE, str |-> <<>>, exc |-> e, msg |-> m]

Min(a, b) == IF a < b THEN a ELSE b

RECURSIVE Concat(_)
Concat(ss) == IF ss = <<>> THEN <<>> ELSE Head(ss) \o Concat(Tail(ss))

RECURSIVE Join(_, _)
Join(sep, ss) ==
    IF ss = <<>> THEN <<>>
    ELSE IF Len(ss) = 1 THEN ss[1]
    ELSE ss[1] \o sep \o Join(sep, Tail(ss))

Slice(s, n) == SubSeq(s, 1, Min(n, Len(s)))

DigitChar == <<"0", "1", "2", "3", "4", "5", "6", "7", "8", "9">>

RECURSIVE IntToStr(_)
IntToStr(n) ==
    IF n < 10 THEN <<DigitChar[n + 1]>>
    ELSE IntToStr(n \div 10) \o <<DigitChar[(n % 10) + 1]>>

\* str(KeyError(k)) is repr(k)
KeyErrorStr(k) == <<"'", k, "'">>

\* ------------------------------------------------- bytes.decode("utf-8")
Utf8Need(b) ==
    IF b < 128 THEN 1
    ELSE IF b >= 194 /\ b <= 223 THEN 2
    ELSE IF b >= 224 /\ b <= 239 THEN 3
    ELSE IF b >= 240 /\ b <= 244 THEN 4
    ELSE 0

IsCont(b) == b >= 128 /\ b <= 191

Utf8CodePoint(bs, n) ==
    IF n = 1 THEN bs[1]
    ELSE IF n = 2 THEN (bs[1] - 192) * 64 + (bs[2] - 128)
    ELSE IF n = 3 THEN (bs[1] - 224) * 4096 + (bs[2] - 128) * 64 + (bs[3] - 128)
    ELSE (bs[1] - 240) * 262144 + (bs[2] - 128) * 4096 + (bs[3] - 128) * 64
         + (bs[4] - 128)

Utf8WellFormed(bs, n) ==
    /\ n >= 1
    /\ Len(bs) >= n
    /\ \A i \in 2..n : IsCont(bs[i])
    /\ LET cp == Utf8CodePoint(bs, n)
       IN  /\ n = 3 => cp >= 2048 /\ ~(cp >= 55296 /\ cp <= 57343)
           /\ n = 4 => cp >= 65536 /\ cp <= 1114111

\* The character of a code point, for the code points the byte strings of
\* the model decode to.
Chr(cp) == CASE cp = 72 -> "H" [] cp = 233 -> "é" [] cp = 10 -> "\n"
             [] OTHER -> "?"

\* Strict decoding: the whole string, or UnicodeDecodeError.
RECURSIVE Utf8Decode(_)
Utf8Decode(bs) ==
    IF bs = <<>> THEN Returned(<<>>)
    ELSE LET n == Utf8Need(Head(bs))
         IN  IF ~Utf8WellFormed(bs, n)
             THEN Raised("UnicodeDecodeError", <<"'utf-8' codec can't decode">>)
             ELSE LET rest == Utf8Decode(SubSeq(bs, n + 1, Len(bs)))
                  IN  IF rest.raised THEN rest
                      ELSE Returned(<<Chr(Utf8CodePoint(bs, n))>> \o rest.str)

\* ------------------------------------------------------- documents
\* What the parsing library of each format finds in an uploaded file.  A
\* file whose content is not of the format a library reads makes that
\* library raise.
NoDoc == [format |-> "none", pages |-> <<>>, paragraphs |-> <<>>,
          columns |-> <<>>, rows |-> <<>>, slides |-> <<>>]

PdfDoc(pages) == [NoDoc EXCEPT !.format = "pdf", !.pages = pages]
DocxDoc(paragraphs) == [NoDoc EXCEPT !.format = "docx", !.paragraphs = paragraphs]
SheetDoc(columns, rows) ==
    [NoDoc EXCEPT !.format = "xlsx", !.columns = columns, !.rows = rows]
PptxDoc(slides) == [NoDoc EXCEPT !.format = "pptx", !.slides = slides]

StrLabel(name) == [isStr |-> TRUE, name |-> name]
IntLabel(n) == [isStr |-> FALSE, name |-> IntToStr(n)]
TextShape(t) == [hasText |-> TRUE, text |-> t]
PictureShape == [hasText |-> FALSE, text |-> <<>>]

\* -------------------------------------------------------- extractors
extract_text_from_pdf(file) ==
    IF file.doc.format # "pdf" THEN Raised("PdfReadError", <<"EOF marker not found">>)
    ELSE LET pages == file.doc.pages
         IN  Returned(Concat([i \in 1..Len(pages) |-> pages[i] \o <<"\n">>]))

extract_text_from_docx(file) ==
    IF file.doc.format # "docx" THEN Raised("PackageNotFoundError", <<"Package not found">>)
    ELSE LET ps == file.doc.paragraphs
         IN  Returned(Concat([i \in 1..Len(ps) |-> ps[i] \o <<"\n">>]))

\* Mutant: to_string() of the whole frame, head() forgotten.
DataFrameAll(rows) == rows

\* df.head(): the first n rows (pandas' default n is 5).
DataFrameHead(rows) == SubSeq(rows, 1, Min(HeadRows, Len(rows)))

\* The line of one row in DataFrame.to_string(): the index label, then the
\* cells.  Column padding is left out.
RowLine(index, row) ==
    IntToStr(index) \o Concat([j \in 1..Len(row) |-> <<" ">> \o IntToStr(row[j])])

\* DataFrame.to_string() of the rows given, indexed from 0.
DataFrameToString(columns, rows) ==
    IF rows = <<>>
    THEN <<"Empty DataFrame", "\n", "Columns: [">>
         \o Join(<<", ">>, [j \in 1..Len(columns) |-> columns[j].name])
         \o <<"]", "\n", "Index: []">>
    ELSE Join(<<"\n">>,
              <<Concat([j \in 1..Len(columns) |-> <<" ">> \o columns[j].name])>>
              \o [i \in 1..Len(rows) |-> RowLine(i - 1, rows[i])])

extract_text_from_excel(file) ==
    IF file.doc.format # "xlsx" THEN Raised("ValueError", <<"Excel file format cannot be determined">>)
    ELSE LET columns == file.doc.columns
             rows == file.doc.rows
         IN  IF \E j \in 1..Len(columns) : ~columns[j].isStr
             THEN Raised("TypeError", <<"sequence item: expected str instance">>)
             ELSE Returned(
                    <<"Colonnes : ">>
                    \o Join(<<", ">>, [j \in 1..Len(columns) |-> columns[j].name])
                    \o <<"\n", "\n">>
                    \o <<"Nombre de lignes : ">> \o IntToStr(Len(rows)) \o <<"\n">>
                    \o <<"Résumé des données :", "\n">>
                    \o DataFrameToString(columns, DataFrameHead(rows)) \o <<"\n">>)

SlideText(shapes) ==
    <<"\n", "--- Nouvelle diapositive ---", "\n">>
    \o Concat([k \in 1..Len(shapes) |->
                 IF shapes[k].hasText THEN shapes[k].text \o <<"\n">> ELSE <<>>])

extract_text_from_pptx(file) ==
    IF file.doc.format # "pptx" THEN Raised("PackageNotFoundError", <<"Package not found">>)
    ELSE LET slides == file.doc.slides
         IN  Returned(Concat([i \in 1..Len(slides) |-> SlideText(slides[i])]))

\* The else branch of get_file_content.
decode_utf8(file) == Utf8Decode(file.bytes)

\* Mutant: the media type matched without regard to case.
DispatchIgnoringCase(file_type) ==
    IF file_type \in {"application/pdf", "Application/PDF"} THEN "pdf"
    ELSE IF file_type = "application/vnd.openxmlformats-officedocument.wordprocessingml.document"
    THEN "docx"
    ELSE IF file_type \in {"application/vnd.ms-excel",
                           "application/vnd.openxmlformats-officedocument.spreadsheetml.sheet"}
    THEN "excel"
    ELSE IF file_type \in {"application/vnd.ms-powerpoint",
                           "application/vnd.openxmlformats-officedocument.presentationml.presentation"}
    THEN "pptx"
    ELSE "utf8"

\* The if/elif chain of get_file_content: the branch a media type takes.
Dispatch(file_type) ==
    IF file_type = "application/pdf" THEN "pdf"
    ELSE IF file_type = "application/vnd.openxmlformats-officedocument.wordprocessingml.document"
    THEN "docx"
    ELSE IF file_type \in {"application/vnd.ms-excel",
                           "application/vnd.openxmlformats-officedocument.spreadsheetml.sheet"}
    THEN "excel"
    ELSE IF file_type \in {"application/vnd.ms-powerpoint",
                           "application/vnd.openxmlformats-officedocument.presentationml.presentation"}
    THEN "pptx"
    ELSE "utf8"

RunExtractor(branch, file) ==
    CASE branch = "pdf" -> extract_text_from_pdf(file)
      [] branch = "docx" -> extract_text_from_docx(file)
      [] branch = "excel" -> extract_text_from_excel(file)
      [] branch = "pptx" -> extract_text_from_pptx(file)
      [] OTHER -> decode_utf8(file)

ReadError(msg) == <<"Erreur lors de la lecture du fichier : ">> \o msg

\* get_file_content: the value returned, the st.error messages shown, the
\* branch taken and whether it raised.
NoExtraction == [value |-> None, errors |-> <<>>, branch |-> "none",
                 raised |-> FALSE, calls |-> 0]

\* Mutant: the except clause returns the message instead of None.
get_file_content_ErrorAsText(uploaded_file_) ==
    IF ~uploaded_file_.present THEN NoExtraction
    ELSE LET branch == Dispatch(uploaded_file_.type)
             r == RunExtractor(branch, uploaded_file_)
         IN  IF r.raised
             THEN [value |-> Some(ReadError(r.msg)), errors |-> <<ReadError(r.msg)>>,
                   branch |-> branch, raised |-> TRUE, calls |-> 1]
             ELSE [value |-> Some(r.str), errors |-> <<>>,
                   branch |-> branch, raised |-> FALSE, calls |-> 1]

get_file_content(uploaded_file_) ==
    IF ~uploaded_file_.present THEN NoExtraction
    ELSE LET branch == Dispatch(uploaded_file_.type)
             r == RunExtractor(branch, uploaded_file_)
         IN  IF r.raised
             THEN [value |-> None, errors |-> <<ReadError(r.msg)>>,
                   branch |-> branch, raised |-> TRUE, calls |-> 1]
             ELSE [value |-> Some(r.str), errors |-> <<>>,
                   branch |-> branch, raised |-> FALSE, calls |-> 1]

\* ------------------------------------------------- language handling
\* The options of both language select boxes, in the order offered.
LangList == <<"fr", "en", "es", "de", "it", "pt", "nl", "ru", "zh", "ja">>

\* input_language when no select box supplies one (Python's None).
NoLang == "None"

lang_names ==
    [c \in {LangList[i] : i \in 1..Len(LangList)} |->
        CASE c = "fr" -> "français" [] c = "en" -> "anglais"
          [] c = "es" -> "espagnol" [] c = "de" -> "allemand"
          [] c = "it" -> "italien" [] c = "pt" -> "portugais"
          [] c = "nl" -> "néerlandais" [] c = "ru" -> "russe"
          [] c = "zh" -> "chinois" [] c = "ja" -> "japonais"]

\* A language argument as the Python value compared in the function.
PyLang(code) == IF code = NoLang THEN None ELSE Some(<<code>>)

Whitespace == {" ", "\n", "\t"}

RECURSIVE LStrip(_)
LStrip(s) == IF s # <<>> /\ Head(s) \in Whitespace THEN LStrip(Tail(s)) ELSE s

RECURSIVE RStrip(_)
RStrip(s) ==
    IF s # <<>> /\ s[Len(s)] \in Whitespace THEN RStrip(SubSeq(s, 1, Len(s) - 1)) ELSE s

\* str.strip()
Strip(s) == RStrip(LStrip(s))

\* ------------------------------------------------------ API requests
DetectRequest(text_) ==
    [api |-> "detect", model |-> "gpt-3.5-turbo",
     system |-> <<"Tu es un expert en détection de langues. Réponds uniquement par le code de langue ISO 639-1 (fr, en, es, etc.).">>,
     user |-> <<"Quelle est la langue de ce texte ? Réponds uniquement par le code langue.\n\nTexte: ">>
              \o Slice(text_, DetectPrefixLen),
     temperature |-> "0", max_tokens |-> 2,
     done |-> FALSE, raised |-> FALSE, content |-> None]

SummaryRequest(prompt_) ==
    [api |-> "summary", model |-> "gpt-3.5-turbo",
     system |-> <<"Tu es un assistant spécialisé dans le résumé de documents.">>,
     user |-> prompt_,
     temperature |-> "0.7", max_tokens |-> 1000,
     done |-> FALSE, raised |-> FALSE, content |-> None]

\* What the API can answer: an exception, or a message whose content is a
\* string or None.
ApiRaised(m) == [raised |-> TRUE, content |-> None, msg |-> m]
ApiContent(c) == [raised |-> FALSE, content |-> c, msg |-> <<>>]

\* The last request of the log, answered.
Answered(log, reply) ==
    [log EXCEPT ![Len(log)] =
        [@ EXCEPT !.done = TRUE, !.raised = reply.raised, !.content = reply.content]]

\* ----------------------------------------------------- prompt builder
\* Mutant: the translation prefix whatever the two languages are.
LangInstructionAlways(source_lang_, output_language_) ==
    IF output_language_ \in DOMAIN lang_names
    THEN Returned(<<"Traduis en ", lang_names[output_language_], ". ">>)
    ELSE Raised("KeyError", KeyErrorStr(output_language_))

\* Lines 116-118: the translation prefix.
LangInstruction(source_lang_, output_language_) ==
    IF source_lang_ # Some(<<output_language_>>)
    THEN IF output_language_ \in DOMAIN lang_names
         THEN Returned(<<"Traduis en ", lang_names[output_language_], ". ">>)
         ELSE Raised("KeyError", KeyErrorStr(output_language_))
    ELSE Returned(<<>>)

Styles == {"vulgarized", "technical", "bullets", "executive"}

\* Mutant: a line break closes the text.
TextSectionClosed(text_) == <<"Texte : ">> \o text_ \o <<"\n">>

\* The end of each of the four f-strings: "Texte : {text}".
TextSection(text_) == <<"Texte : ">> \o text_

\* Lines 120-140: the four f-strings.
PromptTemplate(style, lang_instruction, max_length_, text_) ==
    CASE style = "vulgarized" ->
           lang_instruction
           \o <<"Résume le texte suivant de manière vulgarisée, en utilisant un langage simple \n            et accessible. Longueur approximative : ">>
           \o IntToStr(max_length_) \o <<" mots.\n            \n            ">>
           \o TextSection(text_)
      [] style = "technical" ->
           lang_instruction
           \o <<"Fais un résumé technique du texte suivant, en te concentrant sur les aspects \n            techniques et méthodologiques importants. Longueur approximative : ">>
           \o IntToStr(max_length_) \o <<" mots.\n            \n            ">>
           \o TextSection(text_)
      [] style = "bullets" ->
           lang_instruction
           \o <<"Résume les points clés du texte suivant sous forme de liste à puces.\n            Maximum ">>
           \o IntToStr(max_length_) \o <<" points importants.\n            \n            ">>
           \o TextSection(text_)
      [] style = "executive" ->
           lang_instruction
           \o <<"Génère un executive summary du texte suivant, focalisé sur les points \n            stratégiques et les conclusions principales. Longueur approximative : ">>
           \o IntToStr(max_length_) \o <<" mots.\n            \n            ">>
           \o TextSection(text_)

prompt_templates(lang_instruction, max_length_, text_) ==
    [style \in Styles |-> PromptTemplate(style, lang_instruction, max_length_, text_)]

\* Mutant: an unknown style falls back to the first template.
BuildPromptDefaultStyle(text_, summary_type_, max_length_, source_lang_, output_language_) ==
    LET li == LangInstruction(source_lang_, output_language_)
    IN  IF li.raised THEN li
        ELSE LET templates == prompt_templates(li.str, max_length_, text_)
             IN  IF summary_type_ \in DOMAIN templates
                 THEN Returned(templates[summary_type_])
                 ELSE Returned(templates["vulgarized"])

\* Lines 116-142: the prompt, or the KeyError of a lookup.
BuildPrompt(text_, summary_type_, max_length_, source_lang_, output_language_) ==
    LET li == LangInstruction(source_lang_, output_language_)
    IN  IF li.raised THEN li
        ELSE LET templates == prompt_templates(li.str, max_length_, text_)
             IN  IF summary_type_ \in DOMAIN templates
                 THEN Returned(templates[summary_type_])
                 ELSE Raised("KeyError", KeyErrorStr(summary_type_))

DetectError(msg) == <<"Erreur lors de la détection de la langue : ">> \o msg
SummaryError(msg) == <<"Erreur lors de la génération du résumé : ">> \o msg

\* Mutant: the default language is "en".
DetectResultDefaultEn(reply) ==
    IF reply.raised
    THEN [lang |-> <<"en">>, errors |-> <<DetectError(reply.msg)>>]
    ELSE IF reply.content.isNone
    THEN [lang |-> <<"en">>,
          errors |-> <<DetectError(<<"'NoneType' object has no attribute 'strip'">>)>>]
    ELSE [lang |-> Strip(reply.content.str), errors |-> <<>>]

\* Lines 92-95: what detect_text_language returns for an answer, and the
\* st.error messages it shows.
DetectResult(reply) ==
    IF reply.raised
    THEN [lang |-> <<"fr">>, errors |-> <<DetectError(reply.msg)>>]
    ELSE IF reply.content.isNone
    THEN [lang |-> <<"fr">>,
          errors |-> <<DetectError(<<"'NoneType' object has no attribute 'strip'">>)>>]
    ELSE [lang |-> Strip(reply.content.str), errors |-> <<>>]

\* ------------------------------------------------------------ state
VARIABLES
    detect_language,   \* the check box of the sidebar
    input_language,    \* the "Langue du document" select box, NoLang without it
    output_language,   \* the "Langue du résumé" select box
    summary_type,      \* the "Type de résumé" select box
    max_length,        \* the slider
    source_type,       \* the radio: "Fichier" or "Texte direct"
    uploaded_file,     \* the file uploader's value
    text_area,         \* the text area's value
    button,            \* st.button's value in the current run of main
    pc,                \* "idle", or the API call main is blocked in
    text,              \* main's text
    extraction,        \* what get_file_content did in this run
    apiLog,            \* the API requests of this run, in the order issued
    detected_lang,     \* what detect_text_language returned
    source_lang,       \* input_language inside get_summary_from_openai
    prompt,            \* the prompt of get_summary_from_openai
    errors,            \* the st.error messages of this run
    infos,             \* the st.info / st.write notices of this run
    rendered,          \* the page elements main has drawn in this run
    summary,           \* main's summary
    download           \* the st.download_button of this run

widgets == <<detect_language, input_language, output_language, summary_type,
             max_length, source_type, uploaded_file, text_area>>
runvars == <<pc, text, extraction, apiLog, detected_lang, source_lang, prompt,
             errors, infos, rendered, summary, download>>
vars == <<widgets, button, runvars>>

NoFile == [present |-> FALSE, type |-> "", bytes |-> <<>>, doc |-> NoDoc]
UploadedFile(type, bytes, doc) ==
    [present |-> TRUE, type |-> type, bytes |-> bytes, doc |-> doc]

NoDownload == [offered |-> FALSE, label |-> "", data |-> <<>>,
               file_name |-> "", mime |-> ""]

\* The run of main so far, as one record.
Cur == [pc |-> pc, text |-> text, extraction |-> extraction, apiLog |-> apiLog,
        detected_lang |-> detected_lang, source_lang |-> source_lang,
        prompt |-> prompt, errors |-> errors, infos |-> infos,
        rendered |-> rendered, summary |-> summary, download |-> download]

SetRun(r) ==
    /\ pc' = r.pc
    /\ text' = r.text
    /\ extraction' = r.extraction
    /\ apiLog' = r.apiLog
    /\ detected_lang' = r.detected_lang
    /\ source_lang' = r.source_lang
    /\ prompt' = r.prompt
    /\ errors' = r.errors
    /\ infos' = r.infos
    /\ rendered' = r.rendered
    /\ summary' = r.summary
    /\ download' = r.download

StartsAs(r) ==
    /\ pc = r.pc
    /\ text = r.text
    /\ extraction = r.extraction
    /\ apiLog = r.apiLog
    /\ detected_lang = r.detected_lang
    /\ source_lang = r.source_lang
    /\ prompt = r.prompt
    /\ errors = r.errors
    /\ infos = r.infos
    /\ rendered = r.rendered
    /\ summary = r.summary
    /\ download = r.download

\* ------------------------------------------------------------- main
\* Lines 272-283: main after get_summary_from_openai has returned.
RenderSummary(r) ==
    IF Truthy(r.summary)
    THEN [r EXCEPT !.pc = "idle",
                   !.rendered = @ \cup {"summary", "download"},
                   !.download = [offered |-> TRUE,
                                 label |-> "Télécharger le résumé",
                                 data |-> r.summary.str,
                                 file_name |-> "resume.txt",
                                 mime |-> "text/plain"]]
    ELSE [r EXCEPT !.pc = "idle"]

\* Mutant: the except clause returns the message instead of None.
SummaryFailedReturnsMessage(r, msg) ==
    RenderSummary([r EXCEPT !.errors = Append(@, SummaryError(msg)),
                            !.summary = Some(SummaryError(msg))])

\* Lines 155-157: the except clause of get_summary_from_openai.
SummaryFailed(r, msg) ==
    RenderSummary([r EXCEPT !.errors = Append(@, SummaryError(msg)),
                            !.summary = None])

\* Lines 108-152: the prompt is built and the summarization request issued.
SendSummary(r, summary_type_, max_length_, output_language_) ==
    LET b == BuildPrompt(r.text.str, summary_type_, max_length_, r.source_lang,
                         output_language_)
    IN  IF b.raised THEN SummaryFailed(r, b.msg)
        ELSE [r EXCEPT !.pc = "summary",
                       !.prompt = Some(b.str),
                       !.apiLog = Append(@, SummaryRequest(b.str))]

\* Lines 92-95 and 102-106: the detection call has answered.
AfterDetect(r, reply, summary_type_, max_length_, output_language_) ==
    LET d == DetectResult(reply)
        translate == d.lang # <<output_language_>>
    IN  SendSummary(
            [r EXCEPT !.apiLog = Answered(@, reply),
                      !.errors = @ \o d.errors,
                      !.detected_lang = Some(d.lang),
                      !.source_lang = Some(d.lang),
                      !.infos = IF translate
                                THEN @ \o << <<"Langue détectée : ">> \o d.lang,
                                             <<"La traduction sera effectuée.">> >>
                                ELSE @],
            summary_type_, max_length_, output_language_)

\* Lines 154-157: the summarization call has answered.
AfterSummary(r, reply) ==
    IF reply.raised
    THEN SummaryFailed([r EXCEPT !.apiLog = Answered(@, reply)], reply.msg)
    ELSE RenderSummary([r EXCEPT !.apiLog = Answered(@, reply),
                                 !.summary = reply.content])

\* Mutant: the detection call is made whatever detect_language is.
EnterSummaryAlwaysDetects(r, detect_language_, input_language_, summary_type_, max_length_, output_language_) ==
    [r EXCEPT !.pc = "detect", !.apiLog = Append(@, DetectRequest(r.text.str))]

\* Lines 97-107: get_summary_from_openai is entered.
EnterSummary(r, detect_language_, input_language_, summary_type_, max_length_, output_language_) ==
    IF detect_language_
    THEN [r EXCEPT !.pc = "detect", !.apiLog = Append(@, DetectRequest(r.text.str))]
    ELSE SendSummary([r EXCEPT !.source_lang = PyLang(input_language_)],
                     summary_type_, max_length_, output_language_)

\* Lines 235-270: one run of main, up to its first API call or to its end.
MainRun(detect_language_, input_language_, output_language_, summary_type_, max_length_, source_type_, uploaded_file_, text_area_, button_) ==
    LET ext == IF source_type_ = "Fichier" THEN get_file_content(uploaded_file_)
               ELSE NoExtraction
        txt == IF source_type_ = "Fichier" THEN ext.value ELSE Some(text_area_)
        r == [pc |-> "idle", text |-> txt, extraction |-> ext, apiLog |-> <<>>,
              detected_lang |-> None, source_lang |-> None, prompt |-> None,
              errors |-> ext.errors, infos |-> <<>>,
              rendered |-> IF Truthy(txt) THEN {"original", "button"} ELSE {},
              summary |-> None, download |-> NoDownload]
    IN  IF Truthy(txt) /\ button_
        THEN EnterSummary(r, detect_language_, input_language_, summary_type_,
                          max_length_, output_language_)
        ELSE r

\* The script runs again with the widget values of the next state.
Rerun(clicked) ==
    /\ button' = clicked
    /\ \E r \in {MainRun(detect_language', input_language', output_language',
                         summary_type', max_length', source_type', uploaded_file',
                         text_area', clicked)} : SetRun(r)

\* ----------------------------------------------------------- inputs
UILangs == {LangList[i] : i \in 1..NLangs}

\* The positions of the slider: every SliderStep from SliderMin to SliderMax.
SliderPositions == {v \in SliderMin..SliderMax : (v - SliderMin) % SliderStep = 0}

\* The positions the model moves the slider to.
SliderValues == {v \in SliderPositions : v = SliderDefault \/ v = SliderMax}

\* What the user types in the text area.
Texts == {<<>>, <<"H">>, <<"H", "é", "\n">>}

MediaTypes ==
    {"application/pdf",
     "application/vnd.openxmlformats-officedocument.wordprocessingml.document",
     "application/vnd.ms-excel",
     "application/vnd.openxmlformats-officedocument.spreadsheetml.sheet",
     "application/vnd.ms-powerpoint",
     "application/vnd.openxmlformats-officedocument.presentationml.presentation",
     "text/plain", "application/octet-stream", "Application/PDF"}

\* The media types no branch of get_file_content names, and one it names.
TextFileTypes == {"text/plain", "application/octet-stream", "Application/PDF",
                  "application/pdf"}

\* Byte strings of text files: empty, ASCII, a two-byte character, an
\* invalid byte after a valid one, a truncated character, a lone
\* continuation byte.
RawBytes == {<<>>, <<72>>, <<72, 195, 169>>, <<72, 255>>, <<195>>, <<169>>}

\* The bytes of the files that hold a document of some format.
BinaryBytes == <<72, 255>>

\* A PDF without pages, and one whose second page is an image.
PdfDocs == {PdfDoc(<<>>), PdfDoc(<< <<"H">>, <<>> >>)}
DocxDocs == {DocxDoc(<< <<"H">>, <<"é">> >>)}
\* A sheet with a numeric column label, and one with two columns.
SheetDocs ==
    {SheetDoc(<<StrLabel(<<"a">>), IntLabel(7)>>, <<<<1, 2>>>>),
     SheetDoc(<<StrLabel(<<"a">>), StrLabel(<<"b">>)>>, <<<<1, 2>>, <<3, 4>>>>)}
\* Two slides, the second without shapes; a slide with a picture and a text.
PptxDocs ==
    {PptxDoc(<< <<TextShape(<<"H">>)>>, <<>> >>),
     PptxDoc(<< <<PictureShape, TextShape(<<"é">>)>> >>)}

\* One-column sheets of 0 to MaxRows rows, each row with a value of its own.
SheetRows(n) == [i \in 1..n |-> <<10 + i>>]
LongSheets == {SheetDoc(<<StrLabel(<<"a">>)>>, SheetRows(n)) : n \in 0..MaxRows}

Files ==
    {UploadedFile(t, b, NoDoc) : t \in TextFileTypes, b \in RawBytes}
    \cup {UploadedFile(t, BinaryBytes, d) :
            t \in MediaTypes, d \in PdfDocs \cup DocxDocs \cup SheetDocs \cup PptxDocs}
    \cup {UploadedFile("application/vnd.openxmlformats-officedocument.spreadsheetml.sheet",
                       BinaryBytes, d) : d \in LongSheets}

ApiErrors == {<<"Connection error.">>}

\* Answers of the detection call: a code, a code with blanks around it,
\* no content, an exception.
DetectReplies ==
    {ApiContent(Some(<<l>>)) : l \in UILangs}
    \cup {ApiContent(Some(<<" ", "en", "\n">>)), ApiContent(None)}
    \cup {ApiRaised(m) : m \in ApiErrors}

\* Answers of the summarization call.
SummaryReplies ==
    {ApiContent(Some(<<" ", "S", "\n">>)), ApiContent(Some(<<>>)), ApiContent(None)}
    \cup {ApiRaised(m) : m \in ApiErrors}

\* ------------------------------------------------------------- Init
\* The page as first loaded: every widget at its default.
Init ==
    /\ detect_language = TRUE
    /\ input_language = NoLang
    /\ output_language = LangList[1]
    /\ summary_type = "vulgarized"
    /\ max_length = SliderDefault
    /\ source_type = "Fichier"
    /\ uploaded_file = NoFile
    /\ text_area = <<>>
    /\ button = FALSE
    /\ StartsAs(MainRun(TRUE, NoLang, LangList[1], "vulgarized", SliderDefault,
                        "Fichier", NoFile, <<>>, FALSE))

\* ----------------------------------------------------- user actions
\* Each changes one widget; Streamlit then runs main again.
ToggleDetect ==
    /\ pc = "idle"
    /\ detect_language' = ~detect_language
    /\ input_language' = IF detect_language' THEN NoLang ELSE LangList[1]
    /\ UNCHANGED <<output_language, summary_type, max_length, source_type,
                   uploaded_file, text_area>>
    /\ Rerun(FALSE)

SelectInputLanguage ==
    /\ pc = "idle"
    /\ ~detect_language
    /\ \E l \in UILangs \ {input_language} : input_language' = l
    /\ UNCHANGED <<detect_language, output_language, summary_type, max_length,
                   source_type, uploaded_file, text_area>>
    /\ Rerun(FALSE)

SelectOutputLanguage ==
    /\ pc = "idle"
    /\ \E l \in UILangs \ {output_language} : output_language' = l
    /\ UNCHANGED <<detect_language, input_language, summary_type, max_length,
                   source_type, uploaded_file, text_area>>
    /\ Rerun(FALSE)

SelectStyle ==
    /\ pc = "idle"
    /\ \E s \in Styles \ {summary_type} : summary_type' = s
    /\ UNCHANGED <<detect_language, input_language, output_language, max_length,
                   source_type, uploaded_file, text_area>>
    /\ Rerun(FALSE)

MoveSlider ==
    /\ pc = "idle"
    /\ \E v \in SliderValues \ {max_length} : max_length' = v
    /\ UNCHANGED <<detect_language, input_language, output_language, summary_type,
                   source_type, uploaded_file, text_area>>
    /\ Rerun(FALSE)

\* The radio: the widget of the other source is not drawn and loses its value.
ChooseSource ==
    /\ pc = "idle"
    /\ source_type' = IF source_type = "Fichier" THEN "Texte direct" ELSE "Fichier"
    /\ uploaded_file' = NoFile
    /\ text_area' = <<>>
    /\ UNCHANGED <<detect_language, input_language, output_language, summary_type,
                   max_length>>
    /\ Rerun(FALSE)

\* A file is put in the empty uploader (replacing a file is RemoveFile, then
\* UploadFile: a run of main depends on the widgets' values only).
UploadFile ==
    /\ pc = "idle"
    /\ source_type = "Fichier"
    /\ ~uploaded_file.present
    /\ \E f \in Files : uploaded_file' = f
    /\ UNCHANGED <<detect_language, input_language, output_language, summary_type,
                   max_length, source_type, text_area>>
    /\ Rerun(FALSE)

RemoveFile ==
    /\ pc = "idle"
    /\ source_type = "Fichier"
    /\ uploaded_file.present
    /\ uploaded_file' = NoFile
    /\ UNCHANGED <<detect_language, input_language, output_language, summary_type,
                   max_length, source_type, text_area>>
    /\ Rerun(FALSE)

EnterText ==
    /\ pc = "idle"
    /\ source_type = "Texte direct"
    /\ \E t \in Texts \ {text_area} : text_area' = t
    /\ UNCHANGED <<detect_language, input_language, output_language, summary_type,
                   max_length, source_type, uploaded_file>>
    /\ Rerun(FALSE)

\* The button exists only on a page that drew it.
ClickGenerate ==
    /\ pc = "idle"
    /\ "button" \in rendered
    /\ UNCHANGED widgets
    /\ Rerun(TRUE)

\* -------------------------------------------------------- API answers
DetectReply ==
    /\ pc = "detect"
    /\ \E reply \in DetectReplies :
         \E r \in {AfterDetect(Cur, reply, summary_type, max_length, output_language)} :
            SetRun(r)
    /\ UNCHANGED <<widgets, button>>

SummaryReply ==
    /\ pc = "summary"
    /\ \E reply \in SummaryReplies : \E r \in {AfterSummary(Cur, reply)} : SetRun(r)
    /\ UNCHANGED <<widgets, button>>

Next ==
    \/ ToggleDetect
    \/ SelectInputLanguage
    \/ SelectOutputLanguage
    \/ SelectStyle
    \/ MoveSlider
    \/ ChooseSource
    \/ UploadFile
    \/ RemoveFile
    \/ EnterText
    \/ ClickGenerate
    \/ DetectReply
    \/ SummaryReply

Spec == Init /\ [][Next]_vars

\* ---------------------------------------- calls beyond the sidebar
\* get_summary_from_openai takes any arguments; the sidebar of main passes
\* only its own options.  CallSpec is one run of lines 253-283 of main with
\* the arguments any other caller may pass: a style or an output language
\* that is no key of the tables, no input language, a small length.
CallStyles == Styles \cup {"poem"}
CallInputLangs == UILangs \cup {NoLang}
CallOutputLangs == UILangs \cup {"English"}
CallLengths == {3, SliderDefault}

Invoke ==
    /\ pc = "idle"
    /\ ~button
    /\ detect_language' \in BOOLEAN
    /\ input_language' \in CallInputLangs
    /\ output_language' \in CallOutputLangs
    /\ summary_type' \in CallStyles
    /\ max_length' \in CallLengths
    /\ source_type' = "Texte direct"
    /\ uploaded_file' = NoFile
    /\ text_area' \in Texts
    /\ Rerun(TRUE)

NextCall ==
    \/ Invoke
    \/ DetectReply
    \/ SummaryReply

CallSpec == Init /\ [][NextCall]_vars

\* ------------------------------------------------------- properties
IsPrefix(s, t) == Len(s) <= Len(t) /\ SubSeq(t, 1, Len(s)) = s
IsSuffix(s, t) == Len(s) <= Len(t) /\ SubSeq(t, Len(t) - Len(s) + 1, Len(t)) = s
Contains(t, s) == \E i \in 0..(Len(t) - Len(s)) : SubSeq(t, i + 1, i + Len(s)) = s
Last(s) == s[Len(s)]

RECURSIVE SplitLines(_)
SplitLines(s) ==
    IF \A i \in 1..Len(s) : s[i] # "\n" THEN <<s>>
    ELSE LET i == CHOOSE k \in 1..Len(s) :
                    s[k] = "\n" /\ \A j \in 1..(k - 1) : s[j] # "\n"
         IN  <<SubSeq(s, 1, i - 1)>> \o SplitLines(SubSeq(s, i + 1, Len(s)))

ReadErrorPrefix == "Erreur lors de la lecture du fichier : "
DetectErrorPrefix == "Erreur lors de la détection de la langue : "
SummaryErrorPrefix == "Erreur lors de la génération du résumé : "

\* The requests of this run to the summarization endpoint.
SummaryRequests == SelectSeq(apiLog, LAMBDA q : q.api = "summary")
DetectRequests == SelectSeq(apiLog, LAMBDA q : q.api = "detect")

FileRead == source_type = "Fichier" /\ uploaded_file.present

\* The value and the messages an extractor's result becomes.
AsContent(r) ==
    IF r.raised THEN text = None /\ errors = <<ReadError(r.msg)>>
    ELSE text = Some(r.str)

\* C1: an uploaded document goes to the extractor its media type names by
\* exact match (PDF, DOCX, the two Excel types, the two PowerPoint types);
\* any other media type has its bytes decoded as UTF-8, and bytes that do
\* not decode give None with an error reported, never a part of the text.
C1_DispatchByExactType ==
    FileRead =>
        LET t == uploaded_file.type
        IN  /\ t = "application/pdf"
                => extraction.branch = "pdf" /\ AsContent(extract_text_from_pdf(uploaded_file))
            /\ t = "application/vnd.openxmlformats-officedocument.wordprocessingml.document"
                => extraction.branch = "docx" /\ AsContent(extract_text_from_docx(uploaded_file))
            /\ t \in {"application/vnd.ms-excel",
                      "application/vnd.openxmlformats-officedocument.spreadsheetml.sheet"}
                => extraction.branch = "excel" /\ AsContent(extract_text_from_excel(uploaded_file))
            /\ t \in {"application/vnd.ms-powerpoint",
                      "application/vnd.openxmlformats-officedocument.presentationml.presentation"}
                => extraction.branch = "pptx" /\ AsContent(extract_text_from_pptx(uploaded_file))
            /\ t \in {"text/plain", "application/octet-stream", "Application/PDF"}
                => /\ extraction.branch = "utf8"
                   /\ LET d == Utf8Decode(uploaded_file.bytes)
                      IN  IF d.raised
                          THEN /\ text = None
                               /\ Len(errors) = 1
                               /\ Head(errors[1]) = ReadErrorPrefix
                          ELSE text = Some(d.str)

\* A text file whose second byte is invalid: nothing of it is returned.
C1_Witness ==
    /\ FileRead
    /\ uploaded_file.type = "text/plain"
    /\ uploaded_file.bytes = <<72, 255>>
    /\ text = None
    /\ errors # <<>>

\* C2: when the extractor or the UTF-8 fallback raises, the failure is
\* caught and reported with a message, no text is returned, and the run of
\* main ends there: no preview, no button, no API call, no second try.
C2_ExtractionFailureHalts ==
    extraction.raised =>
        /\ text = None
        /\ Len(errors) = 1
        /\ Head(errors[1]) = ReadErrorPrefix
        /\ Len(errors[1]) > 1
        /\ rendered = {}
        /\ apiLog = <<>>
        /\ pc = "idle"
        /\ summary = None
        /\ ~download.offered
        /\ extraction.calls = 1

\* A file declared a PDF that the PDF reader cannot parse.
C2_Witness ==
    /\ extraction.raised
    /\ extraction.branch = "pdf"
    /\ uploaded_file.doc.format # "pdf"

\* C3: a run of main makes at most one extraction, at most one API call
\* without language detection and at most two with it; the calls follow one
\* another, the detection call is answered before the summarization call is
\* issued, and no call is made twice.
C3_CallBudget ==
    /\ extraction.calls <= 1
    /\ Len(apiLog) <= (IF detect_language THEN 2 ELSE 1)
    /\ Len(SummaryRequests) <= 1
    /\ Len(DetectRequests) <= 1
    /\ DetectRequests # <<>> => detect_language /\ apiLog[1].api = "detect"
    /\ \A i \in 1..(Len(apiLog) - 1) : apiLog[i].done
    /\ \A i \in 1..Len(apiLog) : ~apiLog[i].done => pc # "idle"

\* Both calls made and answered in one run.
C3_Witness ==
    /\ pc = "idle"
    /\ Len(apiLog) = 2
    /\ apiLog[1].api = "detect"
    /\ apiLog[2].api = "summary"
    /\ apiLog[2].done

\* get_summary_from_openai was entered and has returned.
SummaryReturned == pc = "idle" /\ button /\ Truthy(text)

SummaryCallRaised ==
    /\ SummaryReturned
    /\ SummaryRequests # <<>>
    /\ Last(apiLog).raised

EarlierStepRaised == SummaryReturned /\ SummaryRequests = <<>>

\* C4: when the summarization call raises, or a step before it inside
\* get_summary_from_openai does, the function reports the error and returns
\* None, main draws no summary and no download button, and the request is
\* not made again.
C4_SummaryFailureHalts ==
    (SummaryCallRaised \/ EarlierStepRaised) =>
        /\ summary = None
        /\ errors # <<>>
        /\ Head(Last(errors)) = SummaryErrorPrefix
        /\ "summary" \notin rendered
        /\ "download" \notin rendered
        /\ ~download.offered
        /\ Len(SummaryRequests) <= 1

\* The summarization call raised a connection error.
C4_Witness ==
    /\ SummaryCallRaised
    /\ Last(errors) = SummaryError(<<"Connection error.">>)

\* The detection call of this run failed: it raised, or answered no content.
DetectionFailed ==
    /\ apiLog # <<>>
    /\ apiLog[1].api = "detect"
    /\ apiLog[1].done
    /\ (apiLog[1].raised \/ apiLog[1].content.isNone)

\* The summarization request went out with "fr" as the source language.
ProceedsWithFr ==
    /\ detected_lang = Some(<<"fr">>)
    /\ source_lang = Some(<<"fr">>)
    /\ Len(apiLog) = 2
    /\ apiLog[2].api = "summary"
    /\ IsPrefix(<<"Traduis en ">>, apiLog[2].user) <=> output_language # "fr"

\* C5 as stated: a failed detection call is replaced by "fr" silently, no
\* error is shown to the user, and the summarization goes on with "fr".
C5_SilentDefault ==
    DetectionFailed =>
        /\ \A i \in 1..Len(errors) : Head(errors[i]) # DetectErrorPrefix
        /\ ProceedsWithFr

\* C5 amended: a failed detection call is shown to the user as an error
\* (st.error), "fr" is taken as the source language, and the summarization
\* goes on with it instead of the run being aborted.
C5_ReportedDefault ==
    DetectionFailed =>
        /\ errors # <<>>
        /\ Head(errors[1]) = DetectErrorPrefix
        /\ ProceedsWithFr

\* The detection call raised and the request asks for a translation.
C5_Witness ==
    /\ DetectionFailed
    /\ apiLog[1].raised
    /\ output_language # "fr"
    /\ Len(apiLog) = 2

UndefinedStyleCalled == SummaryReturned /\ summary_type \notin Styles

\* What the user is shown when the summarization call itself fails.
ApiFailureReport(m) == SummaryError(m)

\* C6 as stated: an undefined style fails with a configuration error, no
\* prompt is rendered, no summarization request is sent, and the failure
\* can be told from a failure of the summarization call.
C6_ConfigurationError ==
    UndefinedStyleCalled =>
        /\ prompt = None
        /\ SummaryRequests = <<>>
        /\ summary = None
        /\ errors # <<>>
        /\ Head(Last(errors)) # Head(ApiFailureReport(<<>>))

\* C6 amended: an undefined style fails instead of defaulting: no prompt,
\* no summarization request, None returned and nothing drawn; the failure
\* goes through the same except clause as a failure of the call, with the
\* same message prefix and the missing key as its detail.
C6_UndefinedStyleFails ==
    UndefinedStyleCalled =>
        /\ prompt = None
        /\ SummaryRequests = <<>>
        /\ summary = None
        /\ ~download.offered
        /\ errors # <<>>
        /\ Last(errors) \in {SummaryError(KeyErrorStr(summary_type)),
                             SummaryError(KeyErrorStr(output_language))}

\* An undefined style, after a detection call that was made all the same.
C6_Witness ==
    /\ UndefinedStyleCalled
    /\ summary_type = "poem"
    /\ Len(apiLog) = 1
    /\ Last(errors) = SummaryError(KeyErrorStr("poem"))

\* C7: whatever the style, the length and the languages, the prompt sent as
\* the user turn ends with the extracted text, whole and unchanged.
C7_TextIsSuffix ==
    \A i \in 1..Len(apiLog) :
        apiLog[i].api = "summary" =>
            /\ Truthy(text)
            /\ IsSuffix(text.str, apiLog[i].user)
            /\ prompt = Some(apiLog[i].user)

\* A three-character text sent behind a translation prefix.
C7_Witness ==
    /\ SummaryRequests # <<>>
    /\ Len(text.str) = 3
    /\ IsPrefix(<<"Traduis en ">>, Last(apiLog).user)
    /\ summary_type = "executive"

\* The scenario of C8 has run to its end and the call answered a summary.
BulletsScenarioDone ==
    /\ SummaryReturned
    /\ summary_type = "bullets"
    /\ max_length = 3
    /\ output_language = "en"
    /\ SummaryRequests # <<>>
    /\ ~Last(apiLog).raised
    /\ Truthy(Last(apiLog).content)

\* The instruction of a list of at most 3 points.
BulletsInstruction ==
    <<"Résume les points clés du texte suivant sous forme de liste à puces.\n            Maximum ",
      "3", " points importants.\n            \n            ">>

\* C8: for a plain text, style bullets, length 3 and English as the target,
\* with detection on or off, the prompt asks for a list of at most 3 points
\* in English and contains the text, and the download "resume.txt" holds
\* exactly the string the call returned.
C8_BulletsInEnglish ==
    BulletsScenarioDone =>
        /\ Contains(prompt.str, BulletsInstruction)
        /\ Contains(prompt.str, <<lang_names["en"]>>)
        /\ Contains(prompt.str, text.str)
        /\ download.offered
        /\ download.file_name = "resume.txt"
        /\ download.mime = "text/plain"
        /\ download.data = Last(apiLog).content.str

\* The source language of the run, as get_summary_from_openai is to take it.
SourceLanguage == IF detect_language THEN detected_lang ELSE PyLang(input_language)

TemplateHeads ==
    {PromptTemplate(style, <<>>, SliderDefault, <<>>)[1] : style \in Styles}

\* C9: the translation instruction leads the prompt exactly when the source
\* language differs from the output language; the source language is the
\* detected one with detection on, the one supplied otherwise; with equal
\* languages the prompt starts with the style template.
C9_TranslationPrefix ==
    \A i \in 1..Len(apiLog) :
        apiLog[i].api = "summary" =>
            LET p == apiLog[i].user
            IN  IF SourceLanguage # Some(<<output_language>>)
                THEN /\ IsPrefix(<<"Traduis en ", lang_names[output_language], ". ">>, p)
                     /\ p[4] \in TemplateHeads
                ELSE p[1] \in TemplateHeads

\* Detection answered the output language with blanks around it: no prefix.
C9_Witness ==
    /\ SummaryRequests # <<>>
    /\ detect_language
    /\ apiLog[1].content = Some(<<" ", "en", "\n">>)
    /\ output_language = "en"
    /\ Last(apiLog).user[1] \in TemplateHeads

SheetRead == FileRead /\ extraction.branch = "excel" /\ ~extraction.raised

IsRowLine(line) == line # <<>> /\ \E d \in 1..Len(DigitChar) : Head(line) = DigitChar[d]

\* The lines of the tabular part that render a row.
RenderedRows ==
    LET lines == SplitLines(text.str)
    IN  SelectSeq(SubSeq(lines, 5, Len(lines)), IsRowLine)

\* C10: of a sheet with N rows the tabular part renders min(N, 5) rows, the
\* first ones in sheet order, and the row-count line reports N.
C10_FirstFiveRows ==
    SheetRead =>
        LET rows == uploaded_file.doc.rows
            N == Len(rows)
            shown == IF N < 5 THEN N ELSE 5
        IN  /\ Len(RenderedRows) = shown
            /\ \A i \in 1..shown : RenderedRows[i] = RowLine(i - 1, rows[i])
            /\ SplitLines(text.str)[3] = <<"Nombre de lignes : ">> \o IntToStr(N)

\* A sheet of more than five rows has been read.
C10_Witness ==
    /\ SheetRead
    /\ Len(uploaded_file.doc.rows) > 5
    /\ Len(RenderedRows) = 5

====
